---------------------------- MODULE Spec2Model ----------------------------
(***************************************************************************)
(* Earth 3.0 board view (src/app.py): a Streamlit script that is executed  *)
(* from top to bottom on the first page load and again after every widget  *)
(* interaction.  One run loads the catalog, computes the KPI aggregates,   *)
(* reads the widgets, optionally renders the hotspot map, looks up the     *)
(* selected entity, optionally builds the PDF snapshot and renders the     *)
(* alert panel.                                                            *)
(*                                                                         *)
(* Numbers.  Metric values and indices are decimal numbers with one        *)
(* decimal place; the model stores them in tenths (78.0 is 780, 74.6 is    *)
(* 746).  A NaN cell of a data frame is modelled by the column being       *)
(* absent from the row's mapping.  Latitudes and longitudes are stored in  *)
(* units of 1/10000 degree.                                                *)
(*                                                                         *)
(* Not modelled: CSS / markdown decoration, the "Last Updated" date, the   *)
(* generation time stamp of the PDF and the simulated trend chart          *)
(* (lines 192-205), none of which feeds back into the state below.         *)
(***************************************************************************)
EXTENDS Integers, Sequences, FiniteSets, TLC

VARIABLES
    data,          \* the literal list of records of get_fake_orgs (lines 40-53)
    pc,            \* "start": no run yet; "ready": last run completed; "failed": last run raised
    error,         \* exception that ended the last run ("none" when it completed)
    ORGS_DF,       \* module global ORGS_DF at the end of the last run (line 60)
    global_index,  \* line 70, <<>> when not computed, else <<value>>
    num_green,     \* line 71
    num_red,       \* line 72
    org_choice,    \* value of the select box (line 108), "" before the first run
    show_map_btn,  \* value of the map button in the last run (line 109)
    download_pdf,  \* value of the snapshot button in the last run (line 166)
    map_shown,     \* line 137-139
    map_fig,       \* frame plotted by build_map in the last run, <<>> when no map was rendered
    sel,           \* <<row>> looked up at line 148, <<>> when the run did not get there
    pdf,           \* <<document>> offered for download in the last run, else <<>>
    alerts,        \* list built at lines 213-220
    alert_panel    \* what lines 222-226 rendered

vars == <<data, pc, error, ORGS_DF, global_index, num_green, num_red, org_choice,
          show_map_btn, download_pdf, map_shown, map_fig, sel, pdf, alerts, alert_panel>>

-----------------------------------------------------------------------------
(* Bounds of the model *)

\* longest catalog drawn from the record pools (the embedded catalog has six)
MaxOrgs == 2

-----------------------------------------------------------------------------
(* Data frames *)

metric_cols == <<"Finance", "AI Governance", "Climate", "Equity", "Sustainability">>

MetricSet == {metric_cols[i] : i \in 1..Len(metric_cols)}

\* one dict of the data literal
Rec(org, country, lat, lon, fin, aig, cli, eq, sus) ==
    [org |-> org, country |-> country, lat |-> lat, lon |-> lon]
    @@ ("Finance" :> fin) @@ ("AI Governance" :> aig) @@ ("Climate" :> cli)
    @@ ("Equity" :> eq) @@ ("Sustainability" :> sus)

\* the six records embedded in the program
FakeOrgs ==
    << Rec("Unilever PLC", "United Kingdom", 515074, -1278, 780, 850, 620, 710, 770),
       Rec("ACME Motors", "USA", 389072, -770369, 720, 650, 580, 680, 600),
       Rec("Nippon Auto", "Japan", 356762, 1396503, 820, 880, 740, 790, 850),
       Rec("GreenEnergy Ltd", "India", 286139, 772090, 650, 590, 500, 620, 550),
       Rec("Continental Foods", "Germany", 525200, 134050, 830, 800, 780, 750, 820),
       Rec("GlobalBank", "USA", 407128, -740060, 750, 550, 680, 660, 700) >>

\* r[c] is NaN
IsNaN(r, c) == c \notin DOMAIN r

\* a dict with the keys in cols left out
Without(rec, cols) == [c \in (DOMAIN rec) \ cols |-> rec[c]]


\* comparisons with NaN are false
Lt(r, c, k) == ~IsNaN(r, c) /\ r[c] < k

Ge(r, c, k) == ~IsNaN(r, c) /\ r[c] >= k

\* the value as an f-string shows it: <<v>>, or <<>> for nan
Cell(r, c) == IF IsNaN(r, c) THEN <<>> ELSE <<r[c]>>

\* num/den (den > 0) rounded to the nearest integer, halves to the even
\* neighbour: numpy's round(1) (rint of ten times the value) on a value held
\* in tenths.  A mean of five one-decimal values is never half way between
\* two tenths; the means of the pools below that are (a quarter of a whole
\* number) are exact in float64
RoundHalfEven(num, den) ==
    LET q == num \div den
        r == num % den
    IN  IF 2 * r < den THEN q
        ELSE IF 2 * r > den THEN q + 1
        ELSE IF q % 2 = 0 THEN q ELSE q + 1

RECURSIVE SumCols(_, _)
\* sum of the cells of r in the columns cols, NaN skipped
SumCols(r, cols) ==
    IF cols = <<>> THEN 0
    ELSE (IF IsNaN(r, Head(cols)) THEN 0 ELSE r[Head(cols)]) + SumCols(r, Tail(cols))

RECURSIVE CountCols(_, _)
\* number of cells of r in the columns cols that are not NaN
CountCols(r, cols) ==
    IF cols = <<>> THEN 0
    ELSE (IF IsNaN(r, Head(cols)) THEN 0 ELSE 1) + CountCols(r, Tail(cols))

\* RowIndex with the mean cut to one decimal instead of rounded
RowIndexTruncated(r) ==
    IF CountCols(r, metric_cols) = 0 THEN <<>>
    ELSE <<SumCols(r, metric_cols) \div CountCols(r, metric_cols)>>

\* df[metric_cols].mean(axis=1).round(1) for one row: <<index>>, <<>> for NaN
RowIndex(r) ==
    IF CountCols(r, metric_cols) = 0 THEN <<>>
    ELSE <<RoundHalfEven(SumCols(r, metric_cols), CountCols(r, metric_cols))>>

\* the row with its Earth3_Index cell
WithIndex(r) ==
    IF RowIndex(r) = <<>> THEN r ELSE r @@ ("Earth3_Index" :> RowIndex(r)[1])

\* columns of pd.DataFrame(d): the union of the dicts' keys
Columns(d) == UNION {DOMAIN d[i] : i \in 1..Len(d)}

\* get_fake_orgs on the literal d: selecting a metric column that no record
\* has raises KeyError; a key missing from one record only is a NaN cell
get_fake_orgs(d) ==
    IF ~(MetricSet \subseteq Columns(d))
    THEN [error |-> "KeyError", df |-> <<>>]
    ELSE [error |-> "none", df |-> [i \in 1..Len(d) |-> WithIndex(d[i])]]

RECURSIVE SumColumn(_, _)
\* sum of column c over the rows of df, NaN skipped
SumColumn(df, c) ==
    IF df = <<>> THEN 0
    ELSE (IF IsNaN(Head(df), c) THEN 0 ELSE Head(df)[c]) + SumColumn(Tail(df), c)

RECURSIVE CountColumn(_, _)
\* number of rows of df whose cell in column c is not NaN
CountColumn(df, c) ==
    IF df = <<>> THEN 0
    ELSE (IF IsNaN(Head(df), c) THEN 0 ELSE 1) + CountColumn(Tail(df), c)

\* ORGS_DF["Earth3_Index"].mean().round(1)
GlobalIndex(df) ==
    IF CountColumn(df, "Earth3_Index") = 0 THEN <<>>
    ELSE <<RoundHalfEven(SumColumn(df, "Earth3_Index"), CountColumn(df, "Earth3_Index"))>>

RECURSIVE NumGreen(_)
\* (ORGS_DF["Earth3_Index"] >= 70).sum()
NumGreen(df) ==
    IF df = <<>> THEN 0
    ELSE (IF Ge(Head(df), "Earth3_Index", 700) THEN 1 ELSE 0) + NumGreen(Tail(df))

RECURSIVE NumRedTwoWay(_)
\* NumRed as a two-way split: everything that is not healthy
NumRedTwoWay(df) ==
    IF df = <<>> THEN 0
    ELSE (IF Lt(Head(df), "Earth3_Index", 700) THEN 1 ELSE 0) + NumRedTwoWay(Tail(df))

RECURSIVE NumRed(_)
\* (ORGS_DF["Earth3_Index"] < 65).sum()
NumRed(df) ==
    IF df = <<>> THEN 0
    ELSE (IF Lt(Head(df), "Earth3_Index", 650) THEN 1 ELSE 0) + NumRed(Tail(df))

\* options of the select box
Options(df) == [i \in 1..Len(df) |-> df[i].org]

-----------------------------------------------------------------------------
(* Map *)

\* status_color with the thresholds themselves on the lower side
status_colorInclusive(r) ==
    IF Lt(r, "Earth3_Index", 651) THEN "red"
    ELSE IF Lt(r, "Earth3_Index", 701) THEN "orange"
    ELSE "green"

\* build_map.status_color on a row's Earth3_Index
status_color(r) ==
    IF Lt(r, "Earth3_Index", 650) THEN "red"
    ELSE IF Lt(r, "Earth3_Index", 700) THEN "orange"
    ELSE "green"

\* the hover text of one marker
MapText(r) ==
    << r.org, r.country, Cell(r, "Earth3_Index"),
       Cell(r, "Finance"), Cell(r, "AI Governance"), Cell(r, "Climate") >>

\* the frame with the status and text columns
WithStatus(df) ==
    [i \in 1..Len(df) |->
        df[i] @@ ("status" :> status_color(df[i])) @@ ("text" :> MapText(df[i]))]

\* build_map without the df.copy() of line 122
build_mapInPlace(df) == [fig |-> WithStatus(df), caller |-> WithStatus(df)]

\* build_map(df): fig is the frame that is plotted, caller is the frame the
\* caller passed, as it is after the call (the columns go to a copy)
build_map(df) == [fig |-> WithStatus(df), caller |-> df]

\* MapShown with the flag kept from the previous run
MapShownSticky(prev, btn) == prev \/ btn

\* lines 137-139; prev is the value the previous run left
MapShown(prev, btn) == IF btn THEN TRUE ELSE FALSE

-----------------------------------------------------------------------------
(* Selected entity, snapshot *)

\* Lookup that falls back to the first row when no row has the name
LookupFallback(df, name) ==
    LET hits == SelectSeq(df, LAMBDA r : r.org = name)
    IN  IF hits = <<>> THEN [error |-> "none", row |-> <<df[1]>>]
        ELSE [error |-> "none", row |-> <<hits[1]>>]

\* ORGS_DF[ORGS_DF["org"]==name].iloc[0]
Lookup(df, name) ==
    LET hits == SelectSeq(df, LAMBDA r : r.org = name)
    IN  IF hits = <<>> THEN [error |-> "IndexError", row |-> <<>>]
        ELSE [error |-> "none", row |-> <<hits[1]>>]

\* the document offered by the download button for the row s
Snapshot(s) ==
    [ title |-> <<"Earth 3.0 - Board Snapshot: ", s.org>>,
      body  |-> << <<"Country: ", s.country>>, <<"Generated: ">>, <<>> >>
                \o [i \in 1..Len(metric_cols) |-> <<metric_cols[i], ": ", Cell(s, metric_cols[i])>>]
                \o << <<"Earth3_Index: ", Cell(s, "Earth3_Index")>> >>,
      file_name |-> <<s.org, "_earth3_snapshot.pdf">> ]

-----------------------------------------------------------------------------
(* Alerts *)

\* RowAlerts with the three rules chained by elif
RowAlertsExclusive(r) ==
    IF Lt(r, "Earth3_Index", 650)
      THEN << <<r.org, "Low overall readiness", <<"Index ", Cell(r, "Earth3_Index")>> >> >>
    ELSE IF Lt(r, "AI Governance", 600)
      THEN << <<r.org, "AI governance weak", <<"AI Gov ", Cell(r, "AI Governance")>> >> >>
    ELSE IF Lt(r, "Climate", 600)
      THEN << <<r.org, "Climate resilience low", <<"Climate ", Cell(r, "Climate")>> >> >>
    ELSE <<>>

\* RowAlerts with the readiness rule at the classifier's upper threshold
RowAlertsAt70(r) ==
    (IF Lt(r, "Earth3_Index", 700)
       THEN << <<r.org, "Low overall readiness", <<"Index ", Cell(r, "Earth3_Index")>> >> >>
       ELSE <<>>)
    \o (IF Lt(r, "AI Governance", 600)
       THEN << <<r.org, "AI governance weak", <<"AI Gov ", Cell(r, "AI Governance")>> >> >>
       ELSE <<>>)
    \o (IF Lt(r, "Climate", 600)
       THEN << <<r.org, "Climate resilience low", <<"Climate ", Cell(r, "Climate")>> >> >>
       ELSE <<>>)

\* the alerts one row appends, lines 215-220
RowAlerts(r) ==
    (IF Lt(r, "Earth3_Index", 650)
       THEN << <<r.org, "Low overall readiness", <<"Index ", Cell(r, "Earth3_Index")>> >> >>
       ELSE <<>>)
    \o (IF Lt(r, "AI Governance", 600)
       THEN << <<r.org, "AI governance weak", <<"AI Gov ", Cell(r, "AI Governance")>> >> >>
       ELSE <<>>)
    \o (IF Lt(r, "Climate", 600)
       THEN << <<r.org, "Climate resilience low", <<"Climate ", Cell(r, "Climate")>> >> >>
       ELSE <<>>)

RECURSIVE Alerts(_)
\* the loop of lines 213-220 over the rows of df
Alerts(df) ==
    IF df = <<>> THEN <<>> ELSE RowAlerts(Head(df)) \o Alerts(Tail(df))

\* nothing rendered in the alert panel
NoPanel == [success |-> FALSE, rows |-> <<>>]

\* RenderAlerts that leaves the panel empty when there is no alert
RenderAlertsSilent(as) ==
    [success |-> FALSE,
     rows |-> [i \in 1..Len(as) |-> <<"- **", as[i][1], "** - ", as[i][2], " (", as[i][3], ")">>]]

\* lines 222-226
RenderAlerts(as) ==
    IF as = <<>> THEN [success |-> TRUE, rows |-> <<>>]
    ELSE [success |-> FALSE,
          rows |-> [i \in 1..Len(as) |-> <<"- **", as[i][1], "** - ", as[i][2], " (", as[i][3], ")">>]]

-----------------------------------------------------------------------------
(* Catalogs the runs are checked on *)

\* complete records: some of the embedded ones, the fixtures of the
\* documentation, records on the thresholds 65, 70 and 60, one whose mean
\* 64.98 rounds to 65.0 and one with values outside [0, 100]
Pool ==
    { FakeOrgs[2], FakeOrgs[6],
      Rec("Fixture 60", "Testland", 0, 0, 650, 550, 550, 600, 650),
      Rec("Fixture 80", "Testland", 0, 0, 800, 800, 800, 800, 800),
      Rec("Edge 65", "Testland", 0, 0, 650, 650, 650, 650, 650),
      Rec("Edge 70", "Testland", 0, 0, 700, 700, 700, 700, 700),
      Rec("Round 65", "Testland", 0, 0, 649, 650, 650, 650, 650),
      Rec("Edge 60", "Testland", 0, 0, 800, 600, 599, 800, 801),
      Rec("Out Of Range", "Testland", 0, 0, 1500, -50, 1000, 1000, 1000) }

\* records with one or two metric keys missing (whole-number values, at
\* least one metric left), next to complete ones
RawPool ==
    { Without(FakeOrgs[4], {"Climate"}),
      Without(FakeOrgs[1], {"AI Governance"}),
      Without(FakeOrgs[2], {"Equity", "Sustainability"}),
      FakeOrgs[3], FakeOrgs[4], FakeOrgs[6],
      Rec("Edge 65", "Testland", 0, 0, 650, 650, 650, 650, 650) }

\* the lists of 1..MaxOrgs records over a pool
ListsOver(pool) == UNION {[1..n -> pool] : n \in 1..MaxOrgs}

\* names a request can carry: one that no record has, one that differs from
\* a record's name in case only, and one that some catalogs hold
Names == {"Unknown Corp", "globalbank", "GlobalBank"}

-----------------------------------------------------------------------------
(* Runs of the script *)

\* the session before the first run, on the literal d
Fresh(d) ==
    /\ data = d
    /\ pc = "start"
    /\ error = "none"
    /\ ORGS_DF = <<>>
    /\ global_index = <<>>
    /\ num_green = 0
    /\ num_red = 0
    /\ org_choice = ""
    /\ show_map_btn = FALSE
    /\ download_pdf = FALSE
    /\ map_shown = FALSE
    /\ map_fig = <<>>
    /\ sel = <<>>
    /\ pdf = <<>>
    /\ alerts = <<>>
    /\ alert_panel = NoPanel

\* the embedded catalog, or any short list of complete records
Init == \E d \in {FakeOrgs} \cup ListsOver(Pool) : Fresh(d)

\* lists in which records may lack metric keys
InitRaw == \E d \in ListsOver(RawPool) : Fresh(d)

\* one execution of the script, top to bottom, with the select box at
\* choice and the two buttons at mapBtn and pdfBtn
Rerun(choice, mapBtn, pdfBtn) ==
    LET load  == get_fake_orgs(data)
        shown == MapShown(map_shown, mapBtn)
        built == build_map(load.df)
        df    == IF shown THEN built.caller ELSE load.df
        look  == Lookup(df, choice)
    IN  /\ data' = data
        /\ IF load.error # "none"
           THEN \* line 60 raised: nothing is rendered
                /\ pc' = "failed"
                /\ error' = load.error
                /\ ORGS_DF' = <<>>
                /\ global_index' = <<>>
                /\ num_green' = 0
                /\ num_red' = 0
                /\ org_choice' = ""
                /\ show_map_btn' = FALSE
                /\ download_pdf' = FALSE
                /\ map_shown' = FALSE
                /\ map_fig' = <<>>
                /\ sel' = <<>>
                /\ pdf' = <<>>
                /\ alerts' = <<>>
                /\ alert_panel' = NoPanel
           ELSE /\ ORGS_DF' = df
                /\ global_index' = GlobalIndex(load.df)
                /\ num_green' = NumGreen(load.df)
                /\ num_red' = NumRed(load.df)
                /\ org_choice' = choice
                /\ show_map_btn' = mapBtn
                /\ map_shown' = shown
                /\ map_fig' = IF shown THEN built.fig ELSE <<>>
                /\ IF look.error # "none"
                   THEN \* line 148 raised: the KPI row, the controls and the map stay
                        /\ pc' = "failed"
                        /\ error' = look.error
                        /\ download_pdf' = FALSE
                        /\ sel' = <<>>
                        /\ pdf' = <<>>
                        /\ alerts' = <<>>
                        /\ alert_panel' = NoPanel
                   ELSE /\ pc' = "ready"
                        /\ error' = "none"
                        /\ download_pdf' = pdfBtn
                        /\ sel' = look.row
                        /\ pdf' = IF pdfBtn THEN <<Snapshot(look.row[1])>> ELSE <<>>
                        /\ alerts' = Alerts(df)
                        /\ alert_panel' = RenderAlerts(Alerts(df))

\* the select box and the map button are on the page
ControlsRendered == pc = "ready" \/ (pc = "failed" /\ error = "IndexError")

\* first run of a session: the select box is at its first option
PageLoad ==
    /\ pc = "start"
    /\ LET load == get_fake_orgs(data)
       IN  Rerun(IF load.error = "none" THEN Options(load.df)[1] ELSE "", FALSE, FALSE)

\* the user picks another option, the i-th, of the select box
SelectEntity(i) ==
    /\ ControlsRendered
    /\ Options(ORGS_DF)[i] # org_choice
    /\ Rerun(Options(ORGS_DF)[i], FALSE, FALSE)

\* the user clicks "Show Live Twin (Map)"
ClickShowMap ==
    /\ ControlsRendered
    /\ Rerun(org_choice, TRUE, FALSE)

\* the user clicks "Download Snapshot (PDF)"
ClickDownloadSnapshot ==
    /\ pc = "ready"
    /\ Rerun(org_choice, FALSE, TRUE)

\* the user clicks the "Download PDF" button that the snapshot run offered
ClickDownloadPdf ==
    /\ pc = "ready"
    /\ pdf # <<>>
    /\ Rerun(org_choice, FALSE, FALSE)

\* line 148 applied to a name that is not among the options
RequestEntity(name) ==
    /\ ControlsRendered
    /\ \A i \in 1..Len(ORGS_DF) : Options(ORGS_DF)[i] # name
    /\ Rerun(name, FALSE, FALSE)

Next ==
    \/ PageLoad
    \/ \E i \in 1..Len(ORGS_DF) : SelectEntity(i)
    \/ ClickShowMap
    \/ ClickDownloadSnapshot
    \/ ClickDownloadPdf

NextLookup ==
    \/ Next
    \/ \E name \in Names : RequestEntity(name)

\* sessions on complete catalogs
Spec == Init /\ [][Next]_vars

\* sessions on catalogs with missing metric keys
SpecRaw == InitRaw /\ [][Next]_vars

\* sessions in which the lookup is also given names outside the catalog
SpecLookup == Init /\ [][NextLookup]_vars

-----------------------------------------------------------------------------
(* Properties *)

\* the run that produced the state got as far as the alert panel
Completed == pc = "ready"

\* the five metrics of a complete row, added up
MetricTotal(r) ==
    r["Finance"] + r["AI Governance"] + r["Climate"] + r["Equity"] + r["Sustainability"]

\* rule k of the alert engine holds of the complete row r
Fires(r, k) ==
    CASE k = 1 -> r["Earth3_Index"] < 650
      [] k = 2 -> r["AI Governance"] < 600
      [] k = 3 -> r["Climate"] < 600

\* the alert rule k emits for the complete row r
Emitted(r, k) ==
    CASE k = 1 -> <<r.org, "Low overall readiness", <<"Index ", <<r["Earth3_Index"]>> >> >>
      [] k = 2 -> <<r.org, "AI governance weak", <<"AI Gov ", <<r["AI Governance"]>> >> >>
      [] k = 3 -> <<r.org, "Climate resilience low", <<"Climate ", <<r["Climate"]>> >> >>

\* the (entity, rule) pairs of the catalog whose rule holds
Firing == {p \in (1..Len(ORGS_DF)) \X (1..3) : Fires(ORGS_DF[p[1]], p[2])}

\* the firing pairs that come before (i, k): catalog order outer, rule order inner
FiringBefore(i, k) == {p \in Firing : p[1] < i \/ (p[1] = i /\ p[2] < k)}

\* C1: the alert sequence is the concatenation, in catalog order, of each
\* entity's alerts in rule order 1-2-3; a rule emits its alert iff its own
\* condition holds (index < 65, AI Governance < 60, Climate < 60), whatever
\* the other two do, so an entity contributes as many alerts as conditions
\* it satisfies, and nothing is sorted or dropped as a duplicate
AlertsInCatalogAndRuleOrder ==
    Completed =>
        /\ Len(alerts) = Cardinality(Firing)
        /\ \A p \in Firing :
              alerts[Cardinality(FiringBefore(p[1], p[2])) + 1] = Emitted(ORGS_DF[p[1]], p[2])
        /\ \A i \in 1..Len(ORGS_DF) :
              /\ ( /\ ORGS_DF[i]["Earth3_Index"] = 600
                   /\ ORGS_DF[i]["AI Governance"] = 550
                   /\ ORGS_DF[i]["Climate"] = 550 )
                 => Cardinality({p \in Firing : p[1] = i}) = 3
              /\ ( /\ ORGS_DF[i]["Earth3_Index"] = 800
                   /\ ORGS_DF[i]["AI Governance"] = 800
                   /\ ORGS_DF[i]["Climate"] = 800 )
                 => Cardinality({p \in Firing : p[1] = i}) = 0

\* the three-alert fixture twice in one catalog: its three alerts come out
\* in rule order, and then the same three again
AlertsWitness ==
    /\ Completed
    /\ Len(ORGS_DF) = 2
    /\ \A i \in 1..2 :
          ORGS_DF[i]["Earth3_Index"] = 600 /\ ORGS_DF[i]["AI Governance"] = 550
          /\ ORGS_DF[i]["Climate"] = 550
    /\ Len(alerts) = 6
    /\ alerts[1][2] = "Low overall readiness"
    /\ alerts[3][2] = "Climate resilience low"
    /\ alerts[4] = alerts[1]

\* C2: every marker of the map has exactly one of the three statuses: red
\* (critical) iff index < 65, orange (warning) iff 65 <= index < 70, green
\* (healthy) iff index >= 70; 65 itself is orange and 70 itself is green
StatusPartition ==
    \A i \in 1..Len(map_fig) :
        LET v  == map_fig[i]["Earth3_Index"]
            st == map_fig[i]["status"]
        IN  /\ st \in {"red", "orange", "green"}
            /\ st = "red" <=> v < 650
            /\ st = "orange" <=> (650 <= v /\ v < 700)
            /\ st = "green" <=> v >= 700

\* a map with a marker at index 65.0 and a marker at index 70.0
StatusWitness ==
    /\ \E i \in 1..Len(map_fig) :
          map_fig[i]["Earth3_Index"] = 650 /\ map_fig[i]["status"] = "orange"
    /\ \E i \in 1..Len(map_fig) :
          map_fig[i]["Earth3_Index"] = 700 /\ map_fig[i]["status"] = "green"

\* the alerts that carry the name of row i
AlertsOf(i) == SelectSeq(alerts, LAMBDA a : a[1] = ORGS_DF[i].org)

\* C3: the index of every loaded entity is the mean of its five metrics
\* (denominator five) rounded to one decimal place, i.e. the multiple of 0.1
\* within 0.05 of the mean; (78, 85, 62, 71, 77) gives 74.6, healthy, no
\* alert, and (65, 59, 50, 62, 55) gives 58.2, critical, the three alerts in
\* rule order
IndexIsRoundedMean ==
    \A i \in 1..Len(ORGS_DF) :
        LET r == ORGS_DF[i]
            t == MetricTotal(data[i])
            d == 5 * r["Earth3_Index"] - t
        IN  /\ 2 * d <= 5 /\ 2 * d >= -5
            /\ <<r["Finance"], r["AI Governance"], r["Climate"], r["Equity"], r["Sustainability"]>>
                 = <<780, 850, 620, 710, 770>>
               => /\ r["Earth3_Index"] = 746
                  /\ map_fig # <<>> => map_fig[i]["status"] = "green"
                  /\ Completed => AlertsOf(i) = <<>>
            /\ <<r["Finance"], r["AI Governance"], r["Climate"], r["Equity"], r["Sustainability"]>>
                 = <<650, 590, 500, 620, 550>>
               => /\ r["Earth3_Index"] = 582
                  /\ map_fig # <<>> => map_fig[i]["status"] = "red"
                  /\ Completed =>
                        AlertsOf(i) =
                          << <<r.org, "Low overall readiness", <<"Index ", <<582>> >> >>,
                             <<r.org, "AI governance weak", <<"AI Gov ", <<590>> >> >>,
                             <<r.org, "Climate resilience low", <<"Climate ", <<500>> >> >> >>

\* the embedded catalog, loaded and on the map
IndexWitness ==
    /\ data = FakeOrgs
    /\ Completed
    /\ map_fig # <<>>
    /\ ORGS_DF[1]["Earth3_Index"] = 746
    /\ ORGS_DF[4]["Earth3_Index"] = 582

\* C4: healthy count (index >= 70) plus at-risk count (index < 65) is at
\* most the number of entities, and strictly less when some entity has
\* 65 <= index < 70: such an entity is in neither count
AggregateCounts ==
    pc # "start" =>
        LET healthy == {i \in 1..Len(ORGS_DF) : ORGS_DF[i]["Earth3_Index"] >= 700}
            atRisk  == {i \in 1..Len(ORGS_DF) : ORGS_DF[i]["Earth3_Index"] < 650}
            between == (1..Len(ORGS_DF)) \ (healthy \cup atRisk)
        IN  /\ num_green = Cardinality(healthy)
            /\ num_red = Cardinality(atRisk)
            /\ num_green + num_red <= Len(ORGS_DF)
            /\ between # {} => num_green + num_red < Len(ORGS_DF)
            /\ num_green + num_red = Len(ORGS_DF) - Cardinality(between)

\* a catalog with one healthy entity and one between the thresholds
AggregateWitness ==
    /\ Completed
    /\ num_green = 1
    /\ num_red = 0
    /\ Len(ORGS_DF) = 2
    /\ \E i \in 1..2 : ORGS_DF[i]["Earth3_Index"] >= 650 /\ ORGS_DF[i]["Earth3_Index"] < 700

\* record i of the literal lacks one of the five metric keys
Incomplete(i) == ~(MetricSet \subseteq DOMAIN data[i])

\* C5: if one of the five metric values of an entity is missing, the load
\* fails with a configuration error: the record is refused and no index is
\* computed for it from a default or from fewer than five values
IncompleteRecordRefused ==
    (pc # "start" /\ \E i \in 1..Len(data) : Incomplete(i)) =>
        /\ pc = "failed"
        /\ error = "KeyError"
        /\ ORGS_DF = <<>>

\* C6: the lookup of the selected name yields the catalog entity with that
\* name when there is one, for the detail panel and for the snapshot; when
\* there is none the run ends in an error and no entity is selected
LookupByName ==
    (pc # "start" /\ error # "KeyError") =>
        LET known == \E i \in 1..Len(ORGS_DF) : ORGS_DF[i].org = org_choice
        IN  /\ known =>
                /\ pc = "ready"
                /\ Len(sel) = 1
                /\ sel[1].org = org_choice
                /\ \E i \in 1..Len(ORGS_DF) : sel[1] = ORGS_DF[i]
                /\ pdf # <<>> =>
                      /\ pdf[1].title[2] = org_choice
                      /\ pdf[1].file_name[1] = org_choice
                      /\ pdf[1].body[Len(pdf[1].body)][2] = <<sel[1]["Earth3_Index"]>>
            /\ ~known =>
                /\ pc = "failed"
                /\ error = "IndexError"
                /\ sel = <<>>
                /\ pdf = <<>>

\* a request for a name that differs from an entity's name in case only
LookupWitness ==
    /\ org_choice = "globalbank"
    /\ \E i \in 1..Len(ORGS_DF) : ORGS_DF[i].org = "GlobalBank"
    /\ pc = "failed"
    /\ error = "IndexError"
    /\ sel = <<>>

\* C7: in every run the "no critical alerts" state is presented iff the
\* alert sequence is empty; otherwise every alert is a row of its own, in
\* emission order; never both presentations and never neither
AllClearIffNoAlerts ==
    Completed =>
        /\ alert_panel.success <=> alerts = <<>>
        /\ Len(alert_panel.rows) = Len(alerts)
        /\ \A i \in 1..Len(alerts) :
              /\ alert_panel.rows[i][2] = alerts[i][1]
              /\ alert_panel.rows[i][4] = alerts[i][2]
              /\ alert_panel.rows[i][6] = alerts[i][3]
        /\ ~(alert_panel.success /\ alert_panel.rows # <<>>)
        /\ alert_panel.success \/ alert_panel.rows # <<>>

\* a run on a catalog none of whose entities satisfies a rule
AllClearWitness ==
    /\ Completed
    /\ Len(ORGS_DF) = 2
    /\ alerts = <<>>
    /\ alert_panel.success

\* C8: no interaction mutates the catalog: the entities' metrics and
\* indices, the global index, the two counts and the alert sequence are the
\* same after it as before; the map's status and text columns exist only in
\* the plotted copy; a change of selection moves the detail panel only
CatalogNeverMutated ==
    [][ Completed =>
          /\ data' = data
          /\ ORGS_DF' = ORGS_DF
          /\ \A i \in 1..Len(ORGS_DF') :
                /\ DOMAIN ORGS_DF'[i] = DOMAIN data[i] \cup {"Earth3_Index"}
                /\ \A c \in DOMAIN data[i] : ORGS_DF'[i][c] = data[i][c]
          /\ global_index' = global_index
          /\ num_green' = num_green
          /\ num_red' = num_red
          /\ alerts' = alerts
          /\ alert_panel' = alert_panel
          /\ (org_choice' # org_choice) => (sel' # sel /\ sel'[1].org = org_choice') ]_vars

\* the map is on the page and the catalog has no status column
CatalogWitness ==
    /\ Completed
    /\ map_fig # <<>>
    /\ \A i \in 1..Len(map_fig) : "status" \in DOMAIN map_fig[i] /\ "text" \in DOMAIN map_fig[i]
    /\ \A i \in 1..Len(ORGS_DF) : "status" \notin DOMAIN ORGS_DF[i]
    /\ org_choice # ORGS_DF[1].org

\* row i got the alert of the readiness rule
LowReadinessAlert(i) ==
    \E p \in 1..Len(alerts) :
        alerts[p][1] = ORGS_DF[i].org /\ alerts[p][2] = "Low overall readiness"

\* C9: the three uses of the threshold 65 agree for every entity: it gets
\* the "Low overall readiness" alert iff its map status is red iff it is in
\* the at-risk count; the AI Governance and Climate alerts depend on the 60
\* threshold of their metric alone
ThresholdsAgree ==
    Completed =>
        /\ \A i \in 1..Len(ORGS_DF) :
              /\ LowReadinessAlert(i) <=> ORGS_DF[i]["Earth3_Index"] < 650
              /\ map_fig # <<>> => (LowReadinessAlert(i) <=> map_fig[i]["status"] = "red")
              /\ (\E p \in 1..Len(alerts) :
                     alerts[p][1] = ORGS_DF[i].org /\ alerts[p][2] = "AI governance weak")
                 <=> ORGS_DF[i]["AI Governance"] < 600
              /\ (\E p \in 1..Len(alerts) :
                     alerts[p][1] = ORGS_DF[i].org /\ alerts[p][2] = "Climate resilience low")
                 <=> ORGS_DF[i]["Climate"] < 600
        /\ num_red = Cardinality({i \in 1..Len(ORGS_DF) : LowReadinessAlert(i)})
        /\ map_fig # <<>> =>
              num_red = Cardinality({i \in 1..Len(map_fig) : map_fig[i]["status"] = "red"})

\* on the map: a red entity with the readiness alert, next to an orange
\* entity that has the AI Governance alert and not the readiness alert
ThresholdsWitness ==
    /\ Completed
    /\ map_fig # <<>>
    /\ num_red = 1
    /\ \E i \in 1..Len(ORGS_DF) : map_fig[i]["status"] = "red" /\ LowReadinessAlert(i)
    /\ \E i \in 1..Len(ORGS_DF) :
          /\ map_fig[i]["status"] = "orange"
          /\ ~LowReadinessAlert(i)
          /\ \E p \in 1..Len(alerts) :
                alerts[p][1] = ORGS_DF[i].org /\ alerts[p][2] = "AI governance weak"

=============================================================================
